---- MODULE Spec2Model ----
(***************************************************************************)
(* Planar paper folding kernel: scalars, points, lines, polygons, 3x3      *)
(* affine matrices, segment/line intersection, polygon split and fold.     *)
(*                                                                         *)
(* The scalar domain is the exact rational instantiation of Num.  A        *)
(* rational is a pair <<n, d>> in lowest terms with d > 0.  A length       *)
(* (v_distance) is carried as a Surd: the rational whose square root it    *)
(* is, so sums and ratios of lengths are compared exactly.                 *)
(***************************************************************************)
EXTENDS Integers, Sequences, FiniteSets, TLC

\* ------------------------------------------------------------------ bounds
\* Largest integer coordinate of the grid the inputs are drawn from.
GridMax == 4
\* Largest integer coordinate of the segment end points of the segment driver.
SegMax == 2
\* Largest number of builder calls chained into one matrix.
MaxChain == 2
\* Largest number of fold_polygon calls in one sequence of folds.
MaxFolds == 2
\* Bits of the significand of the double-precision format, scaled down.
MantBits == 6
\* The reciprocal of the tolerance 0.000000001 of snap and qntz, scaled down
\* with the format: the tolerance is 1 / EpsInv.
EpsInv == 4
\* Largest base handed to qntz and from_polys.
MaxBase == 4

\* ------------------------------------------------------------ Scalar (Num)
Abs(n) == IF n < 0 THEN -n ELSE n

RECURSIVE GCD(_, _)
GCD(a, b) == IF b = 0 THEN a ELSE GCD(b, a % b)

\* n/d with the common factor g divided out and the sign in the numerator.
Reduce(n, d, g) ==
  IF d < 0 THEN <<(-n) \div g, (-d) \div g>> ELSE <<n \div g, d \div g>>

\* The rational n/d in lowest terms, d # 0.
Rat(n, d) == Reduce(n, d, GCD(Abs(n), Abs(d)))

I2R(n) == <<n, 1>>
zero == <<0, 1>>
one == <<1, 1>>
\* Option: None, or Some(v) holding v.
None == << >>
Some(v) == <<v>>
Unwrap(o) == o[1]

\* The operands are in lowest terms; common factors (g of the denominators,
\* g1 and g2 across the fractions) are divided out before multiplying, so
\* that intermediate integers stay small.
AddOver(a, b, g) ==
  Rat(a[1] * (b[2] \div g) + b[1] * (a[2] \div g), (a[2] \div g) * b[2])
add(a, b) == AddOver(a, b, GCD(a[2], b[2]))
neg(a) == <<-a[1], a[2]>>
sub(a, b) == add(a, neg(b))
MulOver(a, b, g1, g2) ==
  <<(a[1] \div g1) * (b[1] \div g2), (a[2] \div g2) * (b[2] \div g1)>>
mul(a, b) == MulOver(a, b, GCD(Abs(a[1]), b[2]), GCD(Abs(b[1]), a[2]))
abs(a) == <<Abs(a[1]), a[2]>>
LtOver(a, b, g) == a[1] * (b[2] \div g) < b[1] * (a[2] \div g)
lt(a, b) == LtOver(a, b, GCD(a[2], b[2]))
le(a, b) == ~lt(b, a)
gt(a, b) == lt(b, a)
ge(a, b) == ~lt(a, b)
\* Exact domain equality: both sides are in lowest terms.
eq_eps(a, b) == a = b
\* 1/a, a # 0.
Recip(a) == IF a[1] < 0 THEN <<-a[2], -a[1]>> ELSE <<a[2], a[1]>>
\* Plain `/` of the scalar domain, used where the code divides unguarded.
div(a, b) == mul(a, Recip(b))
\* Division; a zero divisor yields None instead of a fault.
divide(a, b) == IF eq_eps(b, zero) THEN None ELSE Some(div(a, b))

\* ------------------------------------------------------------------ Point
\* A vector: the sequence a function over 1..n stands for, held as a tuple.
Vec(f) == f \o << >>

Pt(x, y) == [x |-> x, y |-> y]
P(i, j) == Pt(I2R(i), I2R(j))
Point_sub(a, b) == Pt(sub(a.x, b.x), sub(a.y, b.y))
Point_add(a, b) == Pt(add(a.x, b.x), add(a.y, b.y))
Point_scale(p, alpha) == Pt(mul(p.x, alpha), mul(p.y, alpha))
Point_eq(a, b) == eq_eps(a.x, b.x) /\ eq_eps(a.y, b.y)

\* ---------------------------------------------------------------- Matrix33
\* (row, col), both 0-based, into the row-major array of nine scalars.
idx(i, j) == i * 3 + j
At(m, i, j) == m[idx(i, j) + 1]

Matrix33_new(r0, r1, r2) ==
  <<r0[1], r0[2], r0[3], r1[1], r1[2], r1[3], r2[1], r2[2], r2[3]>>

Matrix33_identity ==
  Matrix33_new(<<one, zero, zero>>, <<zero, one, zero>>, <<zero, zero, one>>)

Matrix33_scale(sx, sy) ==
  Matrix33_new(<<sx, zero, zero>>, <<zero, sy, zero>>, <<zero, zero, one>>)

Matrix33_shear(hx, hy) ==
  Matrix33_new(<<one, hx, zero>>, <<hy, one, zero>>, <<zero, zero, one>>)

\* rotate, given the sine s and cosine c of the angle.
Matrix33_rotate(s, c) ==
  Matrix33_new(<<c, s, zero>>, <<neg(s), c, zero>>, <<zero, zero, one>>)

Matrix33_translate(tx, ty) ==
  Matrix33_new(<<one, zero, zero>>, <<zero, one, zero>>, <<tx, ty, one>>)

\* The only member of a one-element set.
The(S) == CHOOSE r \in S : TRUE

\* x = p.x * self[(0, 0)] + p.y * self[(1, 0)] + self[(2, 0)], y likewise in
\* column 1; the matrix and the point are values when the sums are taken.
Matrix33_transform(self, p) ==
  LET image(m, q) ==
        Pt(add(add(mul(q.x, At(m, 0, 0)), mul(q.y, At(m, 1, 0))), At(m, 2, 0)),
           add(add(mul(q.x, At(m, 0, 1)), mul(q.y, At(m, 1, 1))), At(m, 2, 1)))
  IN  The({image(m, q) : m \in {self}, q \in {p}})

\* A plausible slip: the operands of the product exchanged.
Matrix33_mul_swapped(self, other) ==
  LET product(a, b) ==
        LET p(i, j) == add(add(mul(At(b, i, 0), At(a, 0, j)),
                               mul(At(b, i, 1), At(a, 1, j))),
                           mul(At(b, i, 2), At(a, 2, j)))
        IN  <<p(0, 0), p(0, 1), p(0, 2),
              p(1, 0), p(1, 1), p(1, 2),
              p(2, 0), p(2, 1), p(2, 2)>>
  IN  The({product(a, b) : a \in {self}, b \in {other}})

\* p[idx((i, j))] = self[(i, 0)] * other[(0, j)] + self[(i, 1)] * other[(1, j)]
\*                 + self[(i, 2)] * other[(2, j)], for i, j in 0..3.
\* The operands are moved in: they are values when the entries are computed.
Matrix33_mul(self, other) ==
  LET product(a, b) ==
        LET p(i, j) == add(add(mul(At(a, i, 0), At(b, 0, j)),
                               mul(At(a, i, 1), At(b, 1, j))),
                           mul(At(a, i, 2), At(b, 2, j)))
        IN  <<p(0, 0), p(0, 1), p(0, 2),
              p(1, 0), p(1, 1), p(1, 2),
              p(2, 0), p(2, 1), p(2, 2)>>
  IN  The({product(a, b) : a \in {self}, b \in {other}})

\* ------------------------------------------------------------ lengths
\* A length is kept as a Surd: the non-negative rational q standing for
\* sqrt(q).  Sums and ratios of lengths are then compared without rounding.
IsSquare(n) == \E r \in 0..n : r * r = n
ISqrt(n) == CHOOSE r \in 0..n : r * r = n
\* The rational square root of a surd that has one.
HasRoot(q) == IsSquare(q[1]) /\ IsSquare(q[2])
Root(q) == <<ISqrt(q[1]), ISqrt(q[2])>>
\* sqrt(a) + sqrt(b) = sqrt(c)
SurdSumEq(a, b, c) ==
  LET squares(r) == /\ ge(r, zero)
                    /\ eq_eps(mul(I2R(4), mul(a, b)), mul(r, r))
  IN  squares(sub(sub(c, a), b))

\* Euclidean norm of p, as a Surd; the axis-aligned cases are the absolute
\* coordinate, the general case the hypotenuse.
v_distance(p) ==
  IF eq_eps(p.x, zero) THEN mul(abs(p.y), abs(p.y))
  ELSE IF eq_eps(p.y, zero) THEN mul(abs(p.x), abs(p.x))
  ELSE add(mul(p.x, p.x), mul(p.y, p.y))

p_distance(p1, p2) == v_distance(Point_sub(p1, p2))

\* ------------------------------------------------------------------- Line
Line_new(p1, p2) == [p1 |-> p1, p2 |-> p2]
Line_len(l) == p_distance(l.p1, l.p2)

\* True if point lies on this (finite) line:
\* |p1 - point| + |point - p2| = len.
Line_coincident(l, point) ==
  SurdSumEq(p_distance(l.p1, point), p_distance(point, l.p2), Line_len(l))

\* How far along this line the point is: |p1 - p| / len, a distance from p1
\* with no sign.
dist_along(l, p) == Root(div(p_distance(l.p1, p), Line_len(l)))

\* ---------------------------------------------------------------- Polygon
Polygon_new(points) == [points |-> points, transform |-> Matrix33_identity]
Polygon_with_transform(points, transform) ==
  [points |-> points, transform |-> transform]

\* The polygon as a sequence of lines; edge k joins the previous point (the
\* last one for k = 1) to point k.
Polygon_edges(poly) ==
  LET n == Len(poly.points)
  IN  Vec([k \in 1..n |->
             Line_new(poly.points[IF k = 1 THEN n ELSE k - 1], poly.points[k])])

RECURSIVE SumEdges(_, _)
SumEdges(edges, k) ==
  IF k > Len(edges) THEN zero
  ELSE add(mul(sub(edges[k].p2.x, edges[k].p1.x),
               add(edges[k].p2.y, edges[k].p1.y)),
           SumEdges(edges, k + 1))

double_signed_area(poly) == SumEdges(Polygon_edges(poly), 1)
Polygon_area(poly) == abs(div(double_signed_area(poly), I2R(2)))
\* A plausible slip: a polygon of no area not counted as a hole.
is_hole_strict(poly) == gt(double_signed_area(poly), zero)

is_hole(poly) == ge(double_signed_area(poly), zero)

\* Shape::area: the loop over polys, from the k-th on, added to a.
RECURSIVE ShapeAreaFrom(_, _, _)
ShapeAreaFrom(polys, k, a) ==
  IF k > Len(polys) THEN a
  ELSE LET sgn == IF is_hole(polys[k]) THEN I2R(-1) ELSE one
       IN  ShapeAreaFrom(polys, k + 1, add(a, mul(sgn, Polygon_area(polys[k]))))

Shape_new(polys) == [polys |-> polys]
Shape_area(self) == ShapeAreaFrom(self.polys, 1, zero)

\* Ray casting parity over the consecutive point pairs.
RECURSIVE InsideFrom(_, _, _)
InsideFrom(points, test, offset) ==
  IF offset > Len(points) THEN FALSE
  ELSE
    LET p1 == points[offset]
        p2 == points[(offset % Len(points)) + 1]
        intersect ==
          /\ gt(p1.y, test.y) # gt(p2.y, test.y)
          /\ lt(test.x,
                add(div(mul(sub(p2.x, p1.x), sub(test.y, p1.y)),
                        sub(p2.y, p1.y)),
                    p1.x))
        flipped(rest) == IF intersect THEN ~rest ELSE rest
    IN  flipped(InsideFrom(points, test, offset + 1))

Polygon_inside(poly, test) == InsideFrom(poly.points, test, 1)

Polygon_coincident(poly, test) ==
  \E offset \in 1..Len(poly.points) :
    Line_coincident(Line_new(poly.points[offset],
                             poly.points[(offset % Len(poly.points)) + 1]),
                    test)

\* A plausible slip: the boundary test left out.
Polygon_contains_open(poly, test) == Polygon_inside(poly, test)

Polygon_contains(poly, test) ==
  Polygon_inside(poly, test) \/ Polygon_coincident(poly, test)

\* ------------------------------------------------------- IntersectionEngine
\* Infinite line intersection; None when the lines are parallel.
intersect_inf(a, b) ==
  LET x1 == a.p1.x
      y1 == a.p1.y
      x2 == a.p2.x
      y2 == a.p2.y
      x3 == b.p1.x
      y3 == b.p1.y
      x4 == b.p2.x
      y4 == b.p2.y
      out(d, ca, cb) ==
        IF eq_eps(d, zero) THEN None
        ELSE Some(Pt(div(sub(mul(ca, sub(x3, x4)), mul(sub(x1, x2), cb)), d),
                     div(sub(mul(ca, sub(y3, y4)), mul(sub(y1, y2), cb)), d)))
  IN  out(sub(mul(sub(x1, x2), sub(y3, y4)), mul(sub(y1, y2), sub(x3, x4))),
          sub(mul(x1, y2), mul(y1, x2)),
          sub(mul(x3, y4), mul(y3, x4)))

cross_scalar(a, b) == sub(mul(a.x, b.y), mul(a.y, b.x))

\* A plausible slip: the half-open bound on s closed.
intersect_discrete_closed(a, b) ==
  LET within(s1, s, t) ==
        IF ge(s, zero) /\ le(s, one) /\ ge(t, zero) /\ le(t, one)
        THEN Some(Point_add(a.p1, Point_scale(s1, t)))
        ELSE None
      params(s1, x, y) ==
        IF x = None \/ y = None THEN None
        ELSE within(s1, Unwrap(x), Unwrap(y))
      vectors(s1, s2, c1) ==
        params(s1,
               divide(cross_scalar(s1, c1), cross_scalar(s1, s2)),
               divide(cross_scalar(s2, c1), cross_scalar(s1, s2)))
  IN  vectors(Point_sub(a.p2, a.p1), Point_sub(b.p2, b.p1),
              Point_sub(a.p1, b.p1))

\* Discrete line intersection; None if the segments do not intercept.
intersect_discrete(a, b) ==
  LET within(s1, s, t) ==
        IF ge(s, zero) /\ lt(s, one) /\ ge(t, zero) /\ le(t, one)
        THEN Some(Point_add(a.p1, Point_scale(s1, t)))
        ELSE None
      params(s1, x, y) ==
        IF x = None \/ y = None THEN None
        ELSE within(s1, Unwrap(x), Unwrap(y))
      vectors(s1, s2, c1) ==
        params(s1,
               divide(cross_scalar(s1, c1), cross_scalar(s1, s2)),
               divide(cross_scalar(s2, c1), cross_scalar(s1, s2)))
  IN  vectors(Point_sub(a.p2, a.p1), Point_sub(b.p2, b.p1),
              Point_sub(a.p1, b.p1))

\* A plausible slip: the candidate kept without the check that it lies on
\* the finite boundary edge.
RECURSIVE CandidatesFrom_unvalidated(_, _, _, _)
CandidatesFrom_unvalidated(line, edges, discrete, k) ==
  IF k > Len(edges) THEN <<>>
  ELSE
    LET candidates(boundary, point, rest) ==
          IF point # None
          THEN <<Unwrap(point)>> \o rest
          ELSE rest
    IN  candidates(edges[k],
                   IF discrete THEN intersect_discrete(line, edges[k])
                   ELSE intersect_inf(line, edges[k]),
                   CandidatesFrom_unvalidated(line, edges, discrete, k + 1))

\* The candidates of intersect_poly in boundary order: each edge's
\* intersection with the line, kept when it lies on that finite edge.
RECURSIVE CandidatesFrom(_, _, _, _)
CandidatesFrom(line, edges, discrete, k) ==
  IF k > Len(edges) THEN <<>>
  ELSE
    LET candidates(boundary, point, rest) ==
          IF point # None /\ Line_coincident(boundary, Unwrap(point))
          THEN <<Unwrap(point)>> \o rest
          ELSE rest
    IN  candidates(edges[k],
                   IF discrete THEN intersect_discrete(line, edges[k])
                   ELSE intersect_inf(line, edges[k]),
                   CandidatesFrom(line, edges, discrete, k + 1))

\* Stable insertion of x by key: after every element whose key is <= key(x).
RECURSIVE InsertByKey(_, _, _)
InsertByKey(line, sorted, x) ==
  IF sorted = <<>> THEN <<x>>
  ELSE IF le(dist_along(line, Head(sorted)), dist_along(line, x))
       THEN <<Head(sorted)>> \o InsertByKey(line, Tail(sorted), x)
       ELSE <<x>> \o sorted

\* sort_by_key(dist_along): a stable sort.
RECURSIVE SortByDistAlong(_, _, _)
SortByDistAlong(line, seq, k) ==
  IF k = 0 THEN <<>>
  ELSE InsertByKey(line, SortByDistAlong(line, seq, k - 1), seq[k])

\* Vec::dedup: of each run of equal consecutive elements the first is kept.
RECURSIVE Dedup(_)
Dedup(seq) ==
  IF Len(seq) <= 1 THEN seq
  ELSE LET kept(rest) == IF Point_eq(Head(seq), Head(rest)) THEN rest
                         ELSE <<Head(seq)>> \o rest
       IN  kept(Dedup(Tail(seq)))

\* The sorted, deduplicated candidates of intersect_poly.
Candidates(line, other, discrete) ==
  LET sorted(c) == Dedup(SortByDistAlong(line, c, Len(c)))
  IN  sorted(CandidatesFrom(line, Polygon_edges(other), discrete, 1))

\* A plausible slip: no test of the count, the candidates paired as far as
\* they go.
intersect_poly_guessing(line, other, discrete) ==
  LET segments(candidates) ==
        Vec([i \in 1..(Len(candidates) \div 2) |->
               <<candidates[2 * i - 1], candidates[2 * i]>>])
  IN  segments(Candidates(line, other, discrete))

\* Consecutive candidates paired into (entry, exit); an odd count yields
\* no pairs at all.
intersect_poly(line, other, discrete) ==
  LET segments(candidates) ==
        IF Len(candidates) % 2 # 0 THEN <<>>
        ELSE Vec([i \in 1..(Len(candidates) \div 2) |->
                    <<candidates[2 * i - 1], candidates[2 * i]>>])
  IN  segments(Candidates(line, other, discrete))

intersect_poly_discrete(line, other) == intersect_poly(line, other, TRUE)
intersect_poly_inf(line, other) == intersect_poly(line, other, FALSE)

\* ------------------------------------------------------------- composition
\* then_X appends X as the subsequent operation: m, then X.
then_scale(m, sx, sy) == Matrix33_mul(m, Matrix33_scale(sx, sy))
then_rotate(m, s, c) == Matrix33_mul(m, Matrix33_rotate(s, c))
then_translate(m, tx, ty) == Matrix33_mul(m, Matrix33_translate(tx, ty))

\* Inverse of an affine matrix (third column 0, 0, 1).
Matrix33_inverse(m) ==
  LET a == At(m, 0, 0)
      b == At(m, 0, 1)
      c == At(m, 1, 0)
      d == At(m, 1, 1)
      tx == At(m, 2, 0)
      ty == At(m, 2, 1)
      inv(ia, ib, ic, id) ==
        Matrix33_new(<<ia, ib, zero>>, <<ic, id, zero>>,
                     <<neg(add(mul(tx, ia), mul(ty, ic))),
                       neg(add(mul(tx, ib), mul(ty, id))), one>>)
      over(det) ==
        inv(div(d, det), div(neg(b), det), div(neg(c), det), div(a, det))
  IN  over(sub(mul(a, d), mul(b, c)))

\* --------------------------------------------------------------- FoldEngine
gradient(l) == divide(sub(l.p2.y, l.p1.y), sub(l.p2.x, l.p1.x))

\* The length of d as a scalar (lines of rational length).
Length(d) == Root(v_distance(d))

\* A plausible slip: the direction handed to rotate without dividing by its
\* length.
reflect_matrix_unnormalised(vertex1, vertex2) ==
  LET l == Line_new(vertex1, vertex2)
      g == gradient(l)
  IN  IF g # None
      THEN LET c == sub(vertex1.y, mul(Unwrap(g), vertex1.x))
               d == Point_sub(vertex2, vertex1)
           IN  then_translate(
                 then_rotate(
                   then_scale(
                     then_rotate(Matrix33_translate(zero, neg(c)),
                                 neg(d.y), d.x),
                     one, I2R(-1)),
                   d.y, d.x),
                 zero, c)
      ELSE then_rotate(then_scale(Matrix33_rotate(one, zero), one, I2R(-1)),
                       I2R(-1), zero)

reflect_matrix(vertex1, vertex2) ==
  LET l == Line_new(vertex1, vertex2)
      g == gradient(l)
  IN  IF g # None
      THEN LET c == sub(vertex1.y, mul(Unwrap(g), vertex1.x))
               d == Point_sub(vertex2, vertex1)
           IN  then_translate(
                 then_rotate(
                   then_scale(
                     then_rotate(Matrix33_translate(zero, neg(c)),
                                 div(neg(d.y), Length(d)), div(d.x, Length(d))),
                     one, I2R(-1)),
                   div(d.y, Length(d)), div(d.x, Length(d))),
                 zero, c)
      ELSE then_rotate(then_scale(Matrix33_rotate(one, zero), one, I2R(-1)),
                       I2R(-1), zero)

Reverse(seq) == Vec([i \in 1..Len(seq) |-> seq[Len(seq) + 1 - i]])

\* A plausible slip: the reflected points left in the order of poly.
flip_polygon_unreversed(poly, vertex1, vertex2) ==
  LET flipped(affine) ==
        LET poly_f == Vec([i \in 1..Len(poly.points) |->
                             Matrix33_transform(affine, poly.points[i])])
        IN  Polygon_with_transform(poly_f,
                                   Matrix33_mul(poly.transform, affine))
  IN  The({flipped(affine) : affine \in {reflect_matrix(vertex1, vertex2)}})

flip_polygon(poly, vertex1, vertex2) ==
  LET flipped(affine) ==
        LET poly_f == Vec([i \in 1..Len(poly.points) |->
                             Matrix33_transform(affine, poly.points[i])])
        IN  Polygon_with_transform(Reverse(poly_f),
                                   Matrix33_mul(poly.transform, affine))
  IN  The({flipped(affine) : affine \in {reflect_matrix(vertex1, vertex2)}})

source_poly(poly) ==
  LET source(affine) ==
        Polygon_with_transform(
          Vec([i \in 1..Len(poly.points) |->
                 Matrix33_transform(affine, poly.points[i])]),
          affine)
  IN  The({source(affine) : affine \in {Matrix33_inverse(poly.transform)}})

\* A plausible slip: the test of the loop body without its negation.
fold_one_inverted(p, vertex1, vertex2, anch) ==
  IF Polygon_contains(p, anch) THEN flip_polygon(p, vertex1, vertex2) ELSE p

\* The body of fold_polygon's loop: a polygon that does not contain the
\* anchor is replaced by its flip.
fold_one(p, vertex1, vertex2, anch) ==
  IF ~Polygon_contains(p, anch) THEN flip_polygon(p, vertex1, vertex2) ELSE p

\* The cut an edge meets, as <<a, b>>: a the cut point on the edge, b its
\* partner; the first intersection pair that matches, None if none does.
RECURSIVE FindCo(_, _, _)
FindCo(edge, intersections, i) ==
  IF i > Len(intersections) THEN None
  ELSE IF /\ Line_coincident(edge, intersections[i][1])
          /\ ~Point_eq(edge.p1, intersections[i][1])
       THEN Some(<<intersections[i][1], intersections[i][2]>>)
       ELSE IF /\ Line_coincident(edge, intersections[i][2])
               /\ ~Point_eq(edge.p1, intersections[i][2])
            THEN Some(<<intersections[i][2], intersections[i][1]>>)
            ELSE FindCo(edge, intersections, i + 1)

\* BTreeMap::insert on a map kept as a function from points to indices.
MapInsert(map, key, value) ==
  [k \in (DOMAIN map) \cup {key} |-> IF k = key THEN value ELSE map[k]]

Push(vecs, i, x) == [vecs EXCEPT ![i] = Append(@, x)]

\* ------------------------------------------------------------ SnapQuantizer
RECURSIVE Pow2(_)
Pow2(k) == IF k = 0 THEN 1 ELSE 2 * Pow2(k - 1)

\* 2^e as a scalar, e of either sign.
Pow2R(e) == IF e >= 0 THEN I2R(Pow2(e)) ELSE Rat(1, Pow2(-e))

\* The exponent of a positive scalar: 2^e <= r < 2^(e + 1).
Exponent(r) ==
  CHOOSE e \in (-(3 * MantBits))..(3 * MantBits) :
    le(Pow2R(e), r) /\ lt(r, Pow2R(e + 1))

Floor(q) == q[1] \div q[2]

\* The integer nearest to q >= 0, a tie going to the even one.
RoundTiesEven(q) ==
  LET pick(f, rest) ==
        IF lt(rest, Rat(1, 2)) THEN f
        ELSE IF gt(rest, Rat(1, 2)) THEN f + 1
        ELSE IF f % 2 = 0 THEN f ELSE f + 1
  IN  pick(Floor(q), sub(q, I2R(Floor(q))))

\* The double nearest to the scalar r: r rounded to MantBits significant
\* bits.
to_f64(r) ==
  IF r = zero THEN zero
  ELSE LET rounded(m, ulp) ==
             IF lt(r, zero) THEN neg(mul(I2R(RoundTiesEven(div(m, ulp))), ulp))
             ELSE mul(I2R(RoundTiesEven(div(m, ulp))), ulp)
           at(m, e) == rounded(m, Pow2R(e - MantBits + 1))
           of(m) == at(m, Exponent(m))
       IN  of(abs(r))

\* Operations on doubles: the exact result, rounded.
f64_mul(a, b) == to_f64(mul(a, b))
f64_sub(a, b) == to_f64(sub(a, b))

\* f64::round, as an integer: the nearest integer, a tie going away from zero.
f64_round(a) ==
  LET away(f, rest) == IF lt(rest, Rat(1, 2)) THEN f ELSE f + 1
      mag(m) == away(Floor(m), sub(m, I2R(Floor(m))))
  IN  IF lt(a, zero) THEN -mag(abs(a)) ELSE mag(a)

\* The literal 0.000000001 of snap and qntz, as a double.
snapdist == to_f64(Rat(1, EpsInv))

\* One coordinate of snap: the loop over (0.0, zero) and (1.0, one).
snap_coord(c) ==
  LET second(c1) ==
        IF lt(abs(f64_sub(to_f64(c1), one)), snapdist) THEN one ELSE c1
  IN  second(IF lt(abs(f64_sub(to_f64(c), zero)), snapdist) THEN zero ELSE c)

snap(p) == Pt(snap_coord(p.x), snap_coord(p.y))

\* One coordinate of p2 in qntz: round(c * base) over base.
qntz_coord(c, b) ==
  Rat(f64_round(f64_mul(to_f64(c), to_f64(I2R(b)))), b)

\* The test of qntz on one coordinate.
qntz_close(c, c2) == lt(abs(f64_sub(to_f64(c), to_f64(c2))), snapdist)

qntz(p, b) ==
  LET pick(p2) ==
        IF qntz_close(p.x, p2.x) /\ qntz_close(p.y, p2.y) THEN p2 ELSE p
  IN  pick(Pt(qntz_coord(p.x, b), qntz_coord(p.y, b)))

\* ------------------------------------------------------------------ state
VARIABLES
  pc,       \* position of the driver that calls into the kernel
  \* matrix driver
  mA,       \* matrix A built by chained builder calls
  mB,       \* matrix B built by chained builder calls
  nA,       \* builder calls chained into A so far
  nB,       \* builder calls chained into B so far
  mAB,      \* the product A * B
  mp,       \* the point handed to transform
  mOut,     \* (A * B).transform(mp)
  \* fold driver
  poly,     \* the polygon handed to split_polygon / fold_polygon
  v1,       \* first vertex of the fold line
  v2,       \* second vertex of the fold line
  inters,   \* split_polygon: intersections = intersect_poly_inf(fold, poly)
  polys,    \* split_polygon: the point vectors under construction
  resume,   \* split_polygon: cut point -> index of the vector waiting for it
  cur,      \* split_polygon: index of the current vector
  ei,       \* split_polygon: index of the next edge of the walk
  frags,    \* the polygons split_polygon returned
  anchor,   \* fold_polygon: the anchor
  folded,   \* fold_polygon: the polygons, replaced in place
  fi,       \* fold_polygon: index of the next polygon of the loop
  srcs,     \* source_poly() of each polygon fold_polygon returned
  dinters,  \* intersect_poly_discrete(fold, poly)
  rp,       \* the point handed to reflect_matrix(v1, v2).transform
  rOut,     \* its image
  rOut2,    \* the image of its image
  \* fold sequence driver
  root,     \* the polygon the sequence of folds started from
  others,   \* the current fragments other than the one being folded
  nfolds,   \* fold_polygon calls completed before the current one
  hist,     \* the reflect matrices of the folds that flipped poly, in order
  fhist,    \* the same for each polygon of folded
  ohist,    \* the same for each polygon of others
  \* segment driver
  la,       \* first segment handed to intersect_discrete
  lb,       \* second segment
  lOut,     \* intersect_discrete(la, lb)
  \* polygon driver
  test,     \* the point handed to contains / inside / coincident
  cOut,     \* what the three of them answered
  shape,    \* the polygons of a Shape
  dOut,     \* area() and is_hole() of poly and of poly with its points reversed
  sOut,     \* Shape::area of shape
  pOut,     \* flip_polygon(poly, v1, v2)
  w1,       \* first vertex of a second query line
  w2,       \* second vertex of the second query line
  iv,       \* intersect_poly_inf of the line v1, v2 with poly
  iw,       \* intersect_poly_inf of the line w1, w2 with poly
  \* writer
  qp,       \* the point handed to qntz
  base,     \* the base handed to qntz / from_polys
  qOut,     \* qntz(qp, base)
  wpolys,   \* from_polys: the polygons handed in
  wi,       \* from_polys: index of the polygon of the outer loop
  wj,       \* from_polys: index of the point of the inner loop
  seen,     \* from_polys: destination point -> index
  src,      \* from_polys: source points
  dst,      \* from_polys: destination points
  facets,   \* from_polys: the facets pushed so far
  facet,    \* from_polys: the facet of the current polygon
  orig,     \* from_polys: the source points of the current polygon
  unfolded  \* from_polys: the polygons returned

matVars == <<mA, mB, nA, nB, mAB, mp, mOut>>
splitVars == <<inters, polys, resume, cur, ei, frags>>
foldVars == <<anchor, folded, fi, srcs, fhist>>
seqVars == <<root, others, nfolds, hist, ohist>>
geoVars ==
  <<poly, v1, v2, splitVars, foldVars, dinters, rp, rOut, rOut2, seqVars>>
segVars == <<la, lb, lOut>>
containsVars == <<test, cOut>>
shapeVars == <<shape, dOut, sOut>>
flipVars == <<pOut>>
pairVars == <<w1, w2, iv, iw>>
quantVars == <<qp, qOut>>
writeVars == <<wpolys, wi, wj, seen, src, dst, facets, facet, orig, unfolded>>
extVars ==
  <<containsVars, shapeVars, flipVars, pairVars, base, quantVars, writeVars>>
vars == <<pc, matVars, geoVars, segVars, extVars>>

MatIdle ==
  /\ mA = None /\ mB = None /\ nA = 0 /\ nB = 0
  /\ mAB = None /\ mp = None /\ mOut = None
SeqIdle ==
  /\ root = None /\ others = None /\ nfolds = 0 /\ hist = None /\ ohist = None
GeoIdle ==
  /\ poly = None /\ v1 = None /\ v2 = None
  /\ inters = None /\ polys = None /\ resume = None /\ cur = 0 /\ ei = 0
  /\ frags = None /\ anchor = None /\ folded = None /\ fi = 0 /\ srcs = None
  /\ dinters = None /\ rp = None /\ rOut = None /\ rOut2 = None
  /\ fhist = None /\ SeqIdle
SegIdle == la = None /\ lb = None /\ lOut = None
ContainsIdle == test = None /\ cOut = None
ShapeIdle == shape = None /\ dOut = None /\ sOut = None
FlipIdle == pOut = None
PairIdle == w1 = None /\ w2 = None /\ iv = None /\ iw = None
QuantIdle == qp = None /\ qOut = None
WriteIdle ==
  /\ wpolys = None /\ wi = 0 /\ wj = 0 /\ seen = None /\ src = None
  /\ dst = None /\ facets = None /\ facet = None /\ orig = None
  /\ unfolded = None
ExtIdle ==
  /\ ContainsIdle /\ ShapeIdle /\ FlipIdle /\ PairIdle
  /\ base = 0 /\ QuantIdle /\ WriteIdle

\* Integer grid points the inputs are drawn from.
Coords == 0..GridMax
GridPoints == {P(i, j) : i \in Coords, j \in Coords}

\* The matrices one builder call produces, over a small set of arguments.
Builders ==
  {Matrix33_scale(I2R(2), one), Matrix33_scale(one, I2R(-1)),
   Matrix33_shear(one, zero),
   Matrix33_rotate(one, zero), Matrix33_rotate(Rat(3, 5), Rat(4, 5)),
   Matrix33_translate(one, I2R(2)), Matrix33_translate(zero, I2R(-3))}

\* ----------------------------------------------------- matrix driver
MatInit ==
  /\ pc = "mat_build"
  /\ mA = Matrix33_identity
  /\ mB = Matrix33_identity
  /\ nA = 0
  /\ nB = 0
  /\ mAB = None
  /\ mp = None
  /\ mOut = None
  /\ GeoIdle
  /\ SegIdle
  /\ ExtIdle

\* A = A * builder(...): one more chained builder call on A.
MatChainA ==
  /\ pc = "mat_build"
  /\ nB = 0
  /\ nA < MaxChain
  /\ \E b \in Builders : mA' = Matrix33_mul(mA, b)
  /\ nA' = nA + 1
  /\ UNCHANGED <<pc, mB, nB, mAB, mp, mOut, geoVars, segVars, extVars>>

\* B = B * builder(...): one more chained builder call on B.
MatChainB ==
  /\ pc = "mat_build"
  /\ nB < MaxChain
  /\ \E b \in Builders : mB' = Matrix33_mul(mB, b)
  /\ nB' = nB + 1
  /\ UNCHANGED <<pc, mA, nA, mAB, mp, mOut, geoVars, segVars, extVars>>

\* A * B
MatMul ==
  /\ pc = "mat_build"
  /\ mAB' = Matrix33_mul(mA, mB)
  /\ pc' = "mat_product"
  /\ UNCHANGED <<mA, mB, nA, nB, mp, mOut, geoVars, segVars, extVars>>

\* (A * B).transform(p)
MatTransform ==
  /\ pc = "mat_product"
  /\ \E p \in {P(1, 0), P(0, 1), P(2, 3)} :
       /\ mp' = p
       /\ mOut' = Matrix33_transform(mAB, p)
  /\ pc' = "mat_done"
  /\ UNCHANGED <<mA, mB, nA, nB, mAB, geoVars, segVars, extVars>>

MatNext == MatChainA \/ MatChainB \/ MatMul \/ MatTransform

SpecMat == MatInit /\ [][MatNext]_vars

\* ------------------------------------------------------- fold driver
\* The polygons handed to the kernel: the square of the fold test, a
\* clockwise rectangle, a triangle and a concave U whose notch a horizontal
\* line crosses four times.
InputPolys ==
  {Polygon_new(<<P(0, 0), P(2, 0), P(2, 2), P(0, 2)>>),
   Polygon_new(<<P(1, 1), P(1, 3), P(3, 3), P(3, 1)>>),
   Polygon_new(<<P(0, 0), P(4, 0), P(0, 3)>>),
   Polygon_new(<<P(0, 0), P(4, 0), P(4, 3), P(3, 3),
                 P(3, 1), P(1, 1), P(1, 3), P(0, 3)>>)}

\* The anchors handed to fold_polygon: the anchor of the fold test, points
\* inside, on the boundary of and outside the input polygons.
Anchors == {P(0, 2), P(1, 1), P(2, 2), P(3, 2), P(2, 0), P(4, 4)}

\* Fold lines whose length is a rational number: the lines reflect_matrix
\* is applied to.
RationalLength(a, b) == HasRoot(v_distance(Point_sub(b, a)))

GeoInit ==
  /\ pc = "start"
  /\ poly \in InputPolys
  /\ v1 \in GridPoints
  /\ v2 \in GridPoints \ {v1}
  /\ inters = None /\ polys = None /\ resume = None /\ cur = 0 /\ ei = 0
  /\ frags = None /\ anchor = None /\ folded = None /\ fi = 0 /\ srcs = None
  /\ dinters = None /\ rp = None /\ rOut = None /\ rOut2 = None
  /\ root = poly /\ others = << >> /\ nfolds = 0
  /\ hist = << >> /\ fhist = None /\ ohist = << >>
  /\ MatIdle
  /\ SegIdle
  /\ ExtIdle

\* split_polygon, up to the walk: the cut points, one empty vector, cur = 0.
SplitBegin ==
  /\ pc = "start"
  /\ inters' = intersect_poly_inf(Line_new(v1, v2), poly)
  /\ polys' = << <<>> >>
  /\ resume' = << >>
  /\ cur' = 1
  /\ ei' = 1
  /\ pc' = "split_walk"
  /\ UNCHANGED <<poly, v1, v2, frags, foldVars, dinters, rp, rOut, rOut2,
                 seqVars,
                 matVars, segVars, extVars>>

\* One turn of the loop over poly.edges().
SplitEdge ==
  /\ pc = "split_walk"
  /\ ei <= Len(poly.points)
  /\ LET \* cur is switched to cur1, and a pushed there unless the edge ends at a
         switch(edge, a, resume1, cur1, polys3) ==
           /\ polys' = IF ~Point_eq(edge.p2, a)
                        THEN Push(polys3, cur1, a)
                        ELSE polys3
           /\ resume' = resume1
           /\ cur' = cur1
         \* a is pushed, b registered; the polygon waiting at a resumes, or a
         \* new one starts
         cut(edge, a, polys2, resume1) ==
           IF a \in DOMAIN resume1
           THEN switch(edge, a, resume1, resume1[a], polys2)
           ELSE switch(edge, a, resume1, Len(polys2) + 1, Append(polys2, <<>>))
         walk(edge, polys1, co) ==
           IF co = None
           THEN /\ polys' = polys1
                /\ UNCHANGED <<resume, cur>>
           ELSE cut(edge, Unwrap(co)[1], Push(polys1, cur, Unwrap(co)[1]),
                    MapInsert(resume, Unwrap(co)[2], cur))
         at(edge) ==
           walk(edge, Push(polys, cur, edge.p1), FindCo(edge, inters, 1))
     IN  at(Polygon_edges(poly)[ei])
  /\ ei' = ei + 1
  /\ UNCHANGED <<pc, poly, v1, v2, inters, frags, foldVars, dinters,
                 rp, rOut, rOut2, seqVars,
                 matVars, segVars, extVars>>

\* The vectors wrapped as polygons with the parent's transform.
SplitDone ==
  /\ pc = "split_walk"
  /\ ei > Len(poly.points)
  /\ frags' = [i \in 1..Len(polys) |->
                 Polygon_with_transform(polys[i], poly.transform)]
  /\ pc' = "split_done"
  /\ UNCHANGED <<poly, v1, v2, inters, polys, resume, cur, ei, foldVars,
                 dinters, rp, rOut, rOut2, seqVars,
                 matVars, segVars, extVars>>

\* fold_polygon after its call of split_polygon, with the anchor it was given.
FoldBegin ==
  /\ pc = "split_done"
  /\ RationalLength(v1, v2)
  /\ anchor' \in Anchors
  /\ folded' = frags
  /\ fi' = 1
  /\ fhist' = << >>
  /\ pc' = "folding"
  /\ UNCHANGED <<poly, v1, v2, splitVars, srcs, dinters, rp, rOut, rOut2,
                 seqVars,
                 matVars, segVars, extVars>>

\* One turn of the loop over polys.iter_mut().
FoldStep ==
  /\ pc = "folding"
  /\ fi <= Len(folded)
  /\ folded' = [folded EXCEPT ![fi] = fold_one(folded[fi], v1, v2, anchor)]
  /\ fhist' = Append(fhist, IF ~Polygon_contains(folded[fi], anchor)
                            THEN Append(hist, reflect_matrix(v1, v2))
                            ELSE hist)
  /\ fi' = fi + 1
  /\ UNCHANGED <<pc, poly, v1, v2, splitVars, anchor, srcs, dinters,
                 rp, rOut, rOut2, seqVars,
                 matVars, segVars, extVars>>

FoldDone ==
  /\ pc = "folding"
  /\ fi > Len(folded)
  /\ pc' = "fold_done"
  /\ UNCHANGED <<poly, v1, v2, splitVars, foldVars, dinters, rp, rOut, rOut2,
                 seqVars,
                 matVars, segVars, extVars>>

\* source_poly() of every polygon fold_polygon returned.
SourcePolys ==
  /\ pc = "fold_done"
  /\ srcs' = [i \in 1..Len(folded) |-> source_poly(folded[i])]
  /\ pc' = "sourced"
  /\ UNCHANGED <<poly, v1, v2, splitVars, anchor, folded, fi, fhist, dinters,
                 rp, rOut, rOut2, seqVars,
                 matVars, segVars, extVars>>

\* intersect_poly_discrete(fold, poly)
IntersectDiscrete ==
  /\ pc = "start"
  /\ dinters' = intersect_poly_discrete(Line_new(v1, v2), poly)
  /\ pc' = "discrete_done"
  /\ UNCHANGED <<poly, v1, v2, splitVars, foldVars, rp, rOut, rOut2,
                 seqVars,
                 matVars, segVars, extVars>>

GeoNext ==
  \/ SplitBegin \/ SplitEdge \/ SplitDone
  \/ FoldBegin \/ FoldStep \/ FoldDone \/ SourcePolys
  \/ IntersectDiscrete

Spec == GeoInit /\ [][GeoNext]_vars

\* ------------------------------------------------ fold sequence driver
\* The sheets a sequence of folds starts from: the square of the fold test
\* and the concave U.
SeqRoots ==
  {Polygon_new(<<P(0, 0), P(2, 0), P(2, 2), P(0, 2)>>),
   Polygon_new(<<P(0, 0), P(4, 0), P(4, 3), P(3, 3),
                 P(3, 1), P(1, 1), P(1, 3), P(0, 3)>>)}

\* The fold lines of a sequence: horizontal and vertical lines, given by two
\* vertices left or right of, below or above the cuts they make.
SeqLines ==
  {<<P(0, 1), P(2, 1)>>, <<P(1, 0), P(1, 2)>>, <<P(2, 2), P(4, 2)>>,
   <<P(2, 3), P(2, 0)>>, <<P(0, 2), P(1, 2)>>}

SeqInit ==
  /\ pc = "start"
  /\ poly \in SeqRoots
  /\ \E l \in SeqLines : v1 = l[1] /\ v2 = l[2]
  /\ inters = None /\ polys = None /\ resume = None /\ cur = 0 /\ ei = 0
  /\ frags = None /\ anchor = None /\ folded = None /\ fi = 0 /\ srcs = None
  /\ dinters = None /\ rp = None /\ rOut = None /\ rOut2 = None
  /\ root = poly /\ others = << >> /\ nfolds = 0
  /\ hist = << >> /\ fhist = None /\ ohist = << >>
  /\ MatIdle
  /\ SegIdle
  /\ ExtIdle

Without(seq, i) == SubSeq(seq, 1, i - 1) \o SubSeq(seq, i + 1, Len(seq))

\* The next fold_polygon call of the sequence: one of the polygons the last
\* call returned is folded along a new line, the others are set aside.
Refold ==
  /\ pc = "fold_done"
  /\ nfolds + 1 < MaxFolds
  /\ \E i \in 1..Len(folded) :
       /\ poly' = folded[i]
       /\ hist' = fhist[i]
       /\ others' = others \o Without(folded, i)
       /\ ohist' = ohist \o Without(fhist, i)
  /\ \E l \in SeqLines : v1' = l[1] /\ v2' = l[2]
  /\ nfolds' = nfolds + 1
  /\ inters' = None /\ polys' = None /\ resume' = None /\ cur' = 0 /\ ei' = 0
  /\ frags' = None /\ anchor' = None /\ folded' = None /\ fi' = 0
  /\ fhist' = None
  /\ pc' = "start"
  /\ UNCHANGED <<root, srcs, dinters, rp, rOut, rOut2, matVars, segVars,
                 extVars>>

SeqNext ==
  \/ SplitBegin \/ SplitEdge \/ SplitDone
  \/ FoldBegin \/ FoldStep \/ FoldDone
  \/ Refold

SpecSeq == SeqInit /\ [][SeqNext]_vars

\* --------------------------------------------------- reflection driver
ReflInit ==
  /\ pc = "refl_start"
  /\ v1 \in GridPoints
  /\ v2 \in {q \in GridPoints \ {v1} : RationalLength(v1, q)}
  /\ poly = None
  /\ inters = None /\ polys = None /\ resume = None /\ cur = 0 /\ ei = 0
  /\ frags = None /\ anchor = None /\ folded = None /\ fi = 0 /\ srcs = None
  /\ dinters = None /\ rp = None /\ rOut = None /\ rOut2 = None
  /\ fhist = None /\ SeqIdle
  /\ MatIdle
  /\ SegIdle
  /\ ExtIdle

\* reflect_matrix(v1, v2).transform(p), and the same again on the image.
Reflect ==
  /\ pc = "refl_start"
  /\ \E affine \in {reflect_matrix(v1, v2)} :
       \E p \in GridPoints :
         /\ rp' = p
         /\ rOut' = Matrix33_transform(affine, p)
         /\ rOut2' = Matrix33_transform(affine,
                                        Matrix33_transform(affine, p))
  /\ pc' = "reflected"
  /\ UNCHANGED <<poly, v1, v2, splitVars, foldVars, dinters, seqVars,
                 matVars, segVars, extVars>>

ReflNext == Reflect

SpecRefl == ReflInit /\ [][ReflNext]_vars

\* ---------------------------------------------------- segment driver
SegCoords == 0..SegMax
SegPoints == {P(i, j) : i \in SegCoords, j \in SegCoords}

SegInit ==
  /\ pc = "seg_start"
  /\ la \in {Line_new(a, b) : a \in SegPoints, b \in SegPoints}
  /\ lb \in {Line_new(a, b) : a \in SegPoints, b \in SegPoints}
  /\ lOut = None
  /\ MatIdle
  /\ GeoIdle
  /\ ExtIdle

SegIntersect ==
  /\ pc = "seg_start"
  /\ lOut' = intersect_discrete(la, lb)
  /\ pc' = "seg_done"
  /\ UNCHANGED <<la, lb, matVars, geoVars, extVars>>

SegNext == SegIntersect

SpecSeg == SegInit /\ [][SegNext]_vars

\* ---------------------------------------------------- polygon driver
\* The polygons handed to the methods of Polygon: those of the fold driver
\* and a dart with slanted edges and a reflex vertex.
ProbePolys ==
  InputPolys \cup {Polygon_new(<<P(0, 0), P(4, 2), P(0, 4), P(1, 2)>>)}

\* The points handed to contains: the half-integer grid around the polygons.
TestPoints ==
  {Pt(Rat(i, 2), Rat(j, 2)) :
     i \in (-1)..(2 * GridMax + 1), j \in (-1)..(2 * GridMax + 1)}

FoldIdle ==
  /\ v1 = None /\ v2 = None
  /\ inters = None /\ polys = None /\ resume = None /\ cur = 0 /\ ei = 0
  /\ frags = None /\ anchor = None /\ folded = None /\ fi = 0 /\ srcs = None
  /\ dinters = None /\ rp = None /\ rOut = None /\ rOut2 = None
  /\ fhist = None /\ SeqIdle

ContainsInit ==
  /\ pc = "contains_start"
  /\ poly \in ProbePolys
  /\ test \in TestPoints
  /\ cOut = None
  /\ FoldIdle
  /\ MatIdle
  /\ SegIdle
  /\ ShapeIdle /\ FlipIdle /\ PairIdle /\ base = 0 /\ QuantIdle /\ WriteIdle

\* poly.inside(test), poly.coincident(test), poly.contains(test)
Contains ==
  /\ pc = "contains_start"
  /\ cOut' = [inside |-> Polygon_inside(poly, test),
              coincident |-> Polygon_coincident(poly, test),
              contains |-> Polygon_contains(poly, test)]
  /\ pc' = "contains_done"
  /\ UNCHANGED <<test, matVars, geoVars, segVars, shapeVars, flipVars,
                 pairVars, base, quantVars, writeVars>>

ContainsNext == Contains

SpecContains == ContainsInit /\ [][ContainsNext]_vars

\* ------------------------------------------------------ shape driver
\* The polygons whose area is taken: every triangle of the small grid, the
\* squares of the area tests, and the polygons of the polygon driver in
\* both point orders.
AreaPolys ==
  {Polygon_new(<<a, b, c>>) : a \in SegPoints, b \in SegPoints, c \in SegPoints}
    \cup {Polygon_new(<<P(0, 0), P(1, 0), P(1, 1), P(0, 1)>>),
          Polygon_new(<<P(0, 0), P(0, 1), P(1, 1), P(1, 0)>>),
          Polygon_new(<<P(1, 1), P(1, 2), P(2, 2), P(2, 1)>>)}
    \cup ProbePolys
    \cup {Polygon_new(Reverse(q.points)) : q \in ProbePolys}

\* The shapes built around a polygon: the polygon alone, the polygon with
\* the hole of the area test, and the polygon inside that test's sheet.
ShapesOf(pl) ==
  {Shape_new(<<pl>>),
   Shape_new(<<pl, Polygon_new(<<P(1, 1), P(1, 2), P(2, 2), P(2, 1)>>)>>),
   Shape_new(<<Polygon_new(<<P(0, 0), P(4, 0), P(4, 4), P(0, 4)>>), pl>>)}

ShapeInit ==
  /\ pc = "shape_start"
  /\ poly \in AreaPolys
  /\ shape \in ShapesOf(poly)
  /\ dOut = None
  /\ sOut = None
  /\ FoldIdle
  /\ MatIdle
  /\ SegIdle
  /\ ContainsIdle /\ FlipIdle /\ PairIdle /\ base = 0 /\ QuantIdle /\ WriteIdle

\* area() and is_hole() of poly and of the polygon with the points reversed.
Describe ==
  /\ pc = "shape_start"
  /\ dOut' = [area |-> Polygon_area(poly),
              hole |-> is_hole(poly),
              rarea |-> Polygon_area(Polygon_new(Reverse(poly.points))),
              rhole |-> is_hole(Polygon_new(Reverse(poly.points)))]
  /\ pc' = "described"
  /\ UNCHANGED <<shape, sOut, matVars, geoVars, segVars, containsVars,
                 flipVars, pairVars, base, quantVars, writeVars>>

\* Shape::area
ShapeArea ==
  /\ pc = "described"
  /\ sOut' = Shape_area(shape)
  /\ pc' = "shape_done"
  /\ UNCHANGED <<shape, dOut, matVars, geoVars, segVars, containsVars,
                 flipVars, pairVars, base, quantVars, writeVars>>

ShapeNext == Describe \/ ShapeArea

SpecShape == ShapeInit /\ [][ShapeNext]_vars

\* --------------------------------------------------- quantize driver
Bases == 1..MaxBase

\* The coordinates handed to qntz: multiples of 1/8 and of 1/3 near the unit
\* square, and coordinates of large magnitude just off an integer.
QuantCoords ==
  {Rat(n, 8) : n \in {-3, 0, 1, 3, 4, 8, 9, 259, 515, 1027}}
    \cup {Rat(1, 3), Rat(2, 3)}

QuantPoints == {Pt(x, y) : x \in QuantCoords, y \in QuantCoords}

QuantInit ==
  /\ pc = "quant_start"
  /\ qp \in QuantPoints
  /\ base \in Bases
  /\ qOut = None
  /\ poly = None
  /\ FoldIdle
  /\ MatIdle
  /\ SegIdle
  /\ ContainsIdle /\ ShapeIdle /\ FlipIdle /\ PairIdle /\ WriteIdle

\* qntz(qp, base)
Quantize ==
  /\ pc = "quant_start"
  /\ qOut' = qntz(qp, base)
  /\ pc' = "quant_done"
  /\ UNCHANGED <<qp, base, matVars, geoVars, segVars, containsVars, shapeVars,
                 flipVars, pairVars, writeVars>>

QuantNext == Quantize

SpecQuant == QuantInit /\ [][QuantNext]_vars

\* ------------------------------------------------------------- writer
\* A rational point is its own closest rational point.
find_close_rational_point(p) == p

\* The key of a polygon point in from_polys.
dedup_key(point, b) == find_close_rational_point(qntz(snap(point), b))

\* The source point pushed for a key seen for the first time.
source_point(transform, p, b) ==
  The({find_close_rational_point(qntz(snap(q), b)) :
         q \in {Matrix33_transform(Matrix33_inverse(transform), p)}})

\* A plausible slip: every entry treated as vacant.
Occupied_never(map, key) == FALSE

\* seen.entry(p) is Entry::Occupied.
Occupied(map, key) == key \in DOMAIN map

\* The polygon lists handed to from_polys: the two polygons fold_polygon
\* makes of the square of the fold test, the flipped one lying on top of the
\* other; two squares that share an edge; two triangles whose coordinates
\* snap and quantize; one polygon with a translation as transform; the halves
\* of the square, one flipped across a vertical line; the halves of a
\* rectangle, one flipped across its diagonal.
WriteInputs ==
  {<<Polygon_new(<<P(0, 2), P(0, 1), P(2, 1), P(2, 2)>>),
     flip_polygon(Polygon_new(<<P(0, 1), P(0, 0), P(2, 0), P(2, 1)>>),
                  P(0, 1), P(2, 1))>>,
   <<Polygon_new(<<P(0, 0), P(1, 0), P(1, 1), P(0, 1)>>),
     Polygon_new(<<P(1, 0), P(2, 0), P(2, 1), P(1, 1)>>)>>,
   <<Polygon_new(<<Pt(Rat(1, 8), zero), Pt(one, Rat(1, 3)),
                   Pt(Rat(1, 2), Rat(9, 8))>>),
     Polygon_new(<<Pt(zero, zero), Pt(one, Rat(1, 2)),
                   Pt(Rat(2, 3), Rat(5, 3))>>)>>,
   <<Polygon_with_transform(<<P(1, 0), P(3, 0), P(2, 2)>>,
                            Matrix33_translate(one, zero))>>,
   <<Polygon_new(<<P(0, 0), P(1, 0), P(1, 2), P(0, 2)>>),
     flip_polygon(Polygon_new(<<P(1, 0), P(2, 0), P(2, 2), P(1, 2)>>),
                  P(1, 0), P(1, 2))>>,
   <<Polygon_new(<<P(0, 0), P(4, 0), P(4, 3)>>),
     flip_polygon(Polygon_new(<<P(0, 0), P(4, 3), P(0, 3)>>),
                  P(0, 0), P(4, 3))>>}

\* from_polys up to its loop: the map, the vectors, the first polygon.
WriteInit ==
  /\ pc = "write_loop"
  /\ wpolys \in WriteInputs
  /\ base \in Bases
  /\ wi = 1 /\ wj = 1
  /\ seen = << >> /\ src = << >> /\ dst = << >> /\ facets = << >>
  /\ facet = << >> /\ orig = << >> /\ unfolded = << >>
  /\ poly = None
  /\ FoldIdle
  /\ MatIdle
  /\ SegIdle
  /\ ContainsIdle /\ ShapeIdle /\ FlipIdle /\ PairIdle /\ QuantIdle

\* One turn of the loop over poly.points. Indices count from 0.
WritePoint ==
  /\ pc = "write_loop"
  /\ wi <= Len(wpolys)
  /\ wj <= Len(wpolys[wi].points)
  /\ \E p \in {dedup_key(wpolys[wi].points[wj], base)} :
       IF Occupied(seen, p)
       THEN /\ facet' = Append(facet, seen[p])
            /\ orig' = Append(orig, src[seen[p] + 1])
            /\ UNCHANGED <<seen, src, dst>>
       ELSE \E s \in {source_point(wpolys[wi].transform, p, base)} :
              /\ src' = Append(src, s)
              /\ dst' = Append(dst, p)
              /\ seen' = MapInsert(seen, p, Len(dst))
              /\ facet' = Append(facet, Len(dst))
              /\ orig' = Append(orig, Append(src, s)[Len(dst) + 1])
  /\ wj' = wj + 1
  /\ UNCHANGED <<pc, wpolys, wi, facets, unfolded, base, matVars, geoVars,
                 segVars, containsVars, shapeVars, flipVars, pairVars,
                 quantVars>>

\* The end of a turn of the loop over polys.
WritePoly ==
  /\ pc = "write_loop"
  /\ wi <= Len(wpolys)
  /\ wj > Len(wpolys[wi].points)
  /\ facets' = Append(facets, facet)
  /\ unfolded' = Append(unfolded, Polygon_new(orig))
  /\ facet' = << >>
  /\ orig' = << >>
  /\ wi' = wi + 1
  /\ wj' = 1
  /\ UNCHANGED <<pc, wpolys, seen, src, dst, base, matVars, geoVars,
                 segVars, containsVars, shapeVars, flipVars, pairVars,
                 quantVars>>

\* write(writer, src, facets, dst), whose assertion holds, and the return.
WriteOut ==
  /\ pc = "write_loop"
  /\ wi > Len(wpolys)
  /\ Len(src) = Len(dst)
  /\ pc' = "write_done"
  /\ UNCHANGED <<base, matVars, geoVars, segVars, containsVars, shapeVars,
                 flipVars, pairVars, quantVars, writeVars>>

WriteNext == WritePoint \/ WritePoly \/ WriteOut

SpecWrite == WriteInit /\ [][WriteNext]_vars

\* -------------------------------------------------------- flip driver
\* The polygons handed to flip_polygon: those of the polygon driver, and two
\* that an earlier fold has given a transform.
FlipPolys ==
  ProbePolys
    \cup {Polygon_with_transform(<<P(0, 1), P(0, 2), P(2, 2), P(2, 1)>>,
                                 reflect_matrix(P(0, 1), P(2, 1))),
          Polygon_with_transform(<<P(1, 0), P(3, 0), P(2, 2)>>,
                                 Matrix33_translate(one, zero))}

FlipInit ==
  /\ pc = "flip_start"
  /\ poly \in FlipPolys
  /\ v1 \in GridPoints
  /\ v2 \in {q \in GridPoints \ {v1} : RationalLength(v1, q)}
  /\ pOut = None
  /\ inters = None /\ polys = None /\ resume = None /\ cur = 0 /\ ei = 0
  /\ frags = None /\ anchor = None /\ folded = None /\ fi = 0 /\ srcs = None
  /\ dinters = None /\ rp = None /\ rOut = None /\ rOut2 = None
  /\ fhist = None /\ SeqIdle
  /\ MatIdle
  /\ SegIdle
  /\ ContainsIdle /\ ShapeIdle /\ PairIdle /\ base = 0 /\ QuantIdle /\ WriteIdle

\* flip_polygon(poly, v1, v2)
Flip ==
  /\ pc = "flip_start"
  /\ pOut' = flip_polygon(poly, v1, v2)
  /\ pc' = "flip_done"
  /\ UNCHANGED <<matVars, geoVars, segVars, containsVars, shapeVars,
                 pairVars, base, quantVars, writeVars>>

FlipNext == Flip

SpecFlip == FlipInit /\ [][FlipNext]_vars

\* -------------------------------------------------- query line driver
\* q lies on the infinite line through a and b.
Collinear(a, b, q) ==
  eq_eps(cross_scalar(Point_sub(b, a), Point_sub(q, a)), zero)

\* Two query lines with the same infinite extension, and a polygon.
PairInit ==
  /\ pc = "pair_start"
  /\ poly \in ProbePolys
  /\ v1 \in GridPoints
  /\ v2 \in GridPoints \ {v1}
  /\ w1 \in {q \in GridPoints : Collinear(v1, v2, q)}
  /\ w2 \in {q \in GridPoints \ {w1} : Collinear(v1, v2, q)}
  /\ iv = None
  /\ iw = None
  /\ inters = None /\ polys = None /\ resume = None /\ cur = 0 /\ ei = 0
  /\ frags = None /\ anchor = None /\ folded = None /\ fi = 0 /\ srcs = None
  /\ dinters = None /\ rp = None /\ rOut = None /\ rOut2 = None
  /\ fhist = None /\ SeqIdle
  /\ MatIdle
  /\ SegIdle
  /\ ContainsIdle /\ ShapeIdle /\ FlipIdle /\ base = 0 /\ QuantIdle /\ WriteIdle

\* intersect_poly_inf of each of the two lines with poly.
IntersectPair ==
  /\ pc = "pair_start"
  /\ iv' = intersect_poly_inf(Line_new(v1, v2), poly)
  /\ iw' = intersect_poly_inf(Line_new(w1, w2), poly)
  /\ pc' = "pair_done"
  /\ UNCHANGED <<w1, w2, matVars, geoVars, segVars, containsVars, shapeVars,
                 flipVars, base, quantVars, writeVars>>

PairNext == IntersectPair

SpecPair == PairInit /\ [][PairNext]_vars

\* ------------------------------------------------------------------ claims
\* Geometry stated without the kernel's own predicates.
Dot(a, b) == add(mul(a.x, b.x), mul(a.y, b.y))

\* q lies on the closed segment from a to b.
OnSegment(q, a, b) ==
  IF Point_eq(a, b) THEN Point_eq(q, a)
  ELSE /\ eq_eps(cross_scalar(Point_sub(b, a), Point_sub(q, a)), zero)
       /\ ge(Dot(Point_sub(q, a), Point_sub(b, a)), zero)
       /\ le(Dot(Point_sub(q, a), Point_sub(b, a)),
             Dot(Point_sub(b, a), Point_sub(b, a)))

\* q lies on the boundary of the polygon with these points.
OnBoundary(points, q) ==
  \E k \in 1..Len(points) :
    OnSegment(q, points[k], points[(k % Len(points)) + 1])

\* The mirror image of q across the line through a and b: q moved by twice
\* its offset from its foot on the line.
Mirror(q, a, b) ==
  LET d == Point_sub(b, a)
      t == div(Dot(Point_sub(q, a), d), Dot(d, d))
      foot == Point_add(a, Point_scale(d, t))
  IN  Point_sub(Point_scale(foot, I2R(2)), q)

\* The point sequence started one place earlier: the last point first.
Rotated(points) ==
  IF Len(points) = 0 THEN points
  ELSE <<points[Len(points)]>> \o SubSeq(points, 1, Len(points) - 1)

RECURSIVE SumAreas(_, _)
SumAreas(ps, k) ==
  IF k > Len(ps) THEN zero ELSE add(Polygon_area(ps[k]), SumAreas(ps, k + 1))

\* The fold line is the infinite line through v1 and v2; OnFoldLine(q) says
\* q lies on it.
OnFoldLine(q) ==
  eq_eps(cross_scalar(Point_sub(v2, v1), Point_sub(q, v1)), zero)

\* The deduplicated boundary candidates of the fold line on the polygon.
FoldCandidates == Candidates(Line_new(v1, v2), poly, FALSE)

\* C1: whenever intersect_poly_inf yields a non-empty (even-count) set of cut
\* points, the areas of the fragments split_polygon returns sum to the area
\* of the polygon, wherever v1 lies on the fold line.
C1_AreaConservation ==
  (pc = "split_done" /\ Len(inters) > 0) =>
    eq_eps(SumAreas(frags, 1), Polygon_area(poly))

\* C2: fold_polygon returns as many polygons as split_polygon, in the same
\* order; a fragment that contains the anchor is returned as it is, any
\* other fragment as its flip_polygon image; a fragment with the anchor on
\* its boundary (the anchor on the fold line, several fragments containing
\* it) is never reflected.
C2_AnchorFragmentKept ==
  pc = "fold_done" =>
    /\ Len(folded) = Len(frags)
    /\ \A i \in 1..Len(frags) :
         /\ Polygon_contains(frags[i], anchor) => folded[i] = frags[i]
         /\ ~Polygon_contains(frags[i], anchor) =>
              folded[i] = flip_polygon(frags[i], v1, v2)
         /\ OnBoundary(frags[i].points, anchor) => folded[i] = frags[i]

\* The anchor lies on the fold line, the split has several fragments, every
\* one of them has the anchor on its boundary and none was reflected.
C2_Witness ==
  /\ pc = "fold_done"
  /\ Len(frags) >= 2
  /\ OnFoldLine(anchor)
  /\ \A i \in 1..Len(frags) : OnBoundary(frags[i].points, anchor)
  /\ folded = frags

C4_ReflectIsMirror ==
  pc = "reflected" => Point_eq(rOut, Mirror(rp, v1, v2))

\* C5: for matrices A and B produced by the builders and their products and
\* every point p, (A * B).transform(p) equals B.transform(A.transform(p)):
\* the product applies A first and then B.
C5_CompositionOrder ==
  pc = "mat_done" =>
    Point_eq(mOut, Matrix33_transform(mB, Matrix33_transform(mA, mp)))

\* A product of two non-commuting chains was applied to a point: the other
\* order gives a different point.
C5_Witness ==
  /\ pc = "mat_done"
  /\ nA = MaxChain
  /\ nB > 0
  /\ ~Point_eq(mOut, Matrix33_transform(mA, Matrix33_transform(mB, mp)))

\* The two segments are not parallel, each has its end points on both sides
\* of (or on) the other's line, and b's second end point is not on a's line:
\* they share exactly one point, and it is not b.p2.
SegmentsMeet(a, b) ==
  LET s1 == Point_sub(a.p2, a.p1)
      s2 == Point_sub(b.p2, b.p1)
      a1 == cross_scalar(s2, Point_sub(a.p1, b.p1))
      a2 == cross_scalar(s2, Point_sub(a.p2, b.p1))
      b1 == cross_scalar(s1, Point_sub(b.p1, a.p1))
      b2 == cross_scalar(s1, Point_sub(b.p2, a.p1))
  IN  /\ ~eq_eps(cross_scalar(s1, s2), zero)
      /\ le(mul(a1, a2), zero)
      /\ le(mul(b1, b2), zero)
      /\ ~eq_eps(b2, zero)

\* C6: intersect_discrete(a, b) is Some(p) exactly when a and b are not
\* parallel and meet at parameters 0 <= t <= 1 along a and 0 <= s < 1 along
\* b; p then lies on both finite segments.  Parallel segments, segments
\* that do not reach each other and contact only at b.p2 give None.
C6_DiscreteIntersection ==
  pc = "seg_done" =>
    /\ (lOut # None) <=> SegmentsMeet(la, lb)
    /\ lOut # None =>
         /\ OnSegment(Unwrap(lOut), la.p1, la.p2)
         /\ OnSegment(Unwrap(lOut), lb.p1, lb.p2)
         /\ ~Point_eq(Unwrap(lOut), lb.p2)

\* Two segments that are not parallel and touch only at b.p2 gave None.
C6_Witness ==
  /\ pc = "seg_done"
  /\ lOut = None
  /\ ~eq_eps(cross_scalar(Point_sub(la.p2, la.p1), Point_sub(lb.p2, lb.p1)),
             zero)
  /\ OnSegment(lb.p2, la.p1, la.p2)

\* The points of a list of (entry, exit) pairs, in order.
RECURSIVE Flatten(_, _)
Flatten(pairs, k) ==
  IF k > Len(pairs) THEN <<>>
  ELSE <<pairs[k][1], pairs[k][2]>> \o Flatten(pairs, k + 1)

\* Every point of the pairs lies on a finite boundary edge of the polygon;
\* the points are in non-decreasing dist_along order and no two adjacent
\* ones are equal.
WellOrderedCuts(pairs) ==
  LET pts == Flatten(pairs, 1)
      line == Line_new(v1, v2)
  IN  /\ \A k \in 1..Len(pts) : OnBoundary(poly.points, pts[k])
      /\ \A k \in 1..(Len(pts) - 1) :
           /\ le(dist_along(line, pts[k]), dist_along(line, pts[k + 1]))
           /\ ~Point_eq(pts[k], pts[k + 1])

\* C7: every point intersect_poly_inf / intersect_poly_discrete returns lies
\* on a finite boundary edge of the polygon; the returned points are in
\* non-decreasing dist_along order with no two equal adjacent points.
C7_CutsOnBoundarySorted ==
  /\ pc = "split_walk" => WellOrderedCuts(inters)
  /\ pc = "discrete_done" => WellOrderedCuts(dinters)

\* The fold line, extended, meets the line of a boundary edge outside the
\* edge, and the cut points it returned are two or more pairs.
C7_Witness ==
  /\ pc = "split_walk"
  /\ Len(inters) >= 2
  /\ \E k \in 1..Len(poly.points) :
       LET e == Polygon_edges(poly)[k]
           q == intersect_inf(Line_new(v1, v2), e)
       IN  q # None /\ ~OnSegment(Unwrap(q), e.p1, e.p2)

\* C8 as stated: an odd number of deduplicated candidates makes
\* intersect_poly return no pairs and split_polygon an empty result.
C8_OddEmptySplit ==
  (pc = "split_done" /\ Len(FoldCandidates) % 2 = 1) =>
    (inters = <<>> /\ frags = <<>>)

\* C8 amended: an odd number of deduplicated candidates makes intersect_poly
\* return no pairs, and split_polygon returns the polygon unsplit: one
\* fragment with all its points (started at the last point) and its
\* transform.
C8_OddUnsplit ==
  (pc = "split_done" /\ Len(FoldCandidates) % 2 = 1) =>
    /\ inters = <<>>
    /\ frags = <<Polygon_with_transform(Rotated(poly.points), poly.transform)>>

\* The fold line touches the polygon at a single vertex and the split is
\* done.
C8_Witness ==
  /\ pc = "split_done"
  /\ Len(FoldCandidates) = 1
  /\ \E k \in 1..Len(poly.points) : Point_eq(FoldCandidates[1], poly.points[k])

\* C9: applying reflect_matrix(v1, v2) twice to a point returns the point.
C9_ReflectionInvolution ==
  pc = "reflected" => Point_eq(rOut2, rp)

\* A point off a slanted fold line was reflected twice.
C9_Witness ==
  /\ pc = "reflected"
  /\ ~eq_eps(v1.x, v2.x)
  /\ ~eq_eps(v1.y, v2.y)
  /\ ~Point_eq(rOut, rp)
  /\ Point_eq(rOut2, rp)

\* C10 as stated: source_poly() of every fragment fold_polygon returns has
\* the area of the polygon that was folded.
C10_SourceAreaIsPolyArea ==
  pc = "sourced" =>
    \A i \in 1..Len(srcs) :
      eq_eps(Polygon_area(srcs[i]), Polygon_area(poly))

\* C10 amended: source_poly() of every fragment fold_polygon returns has the
\* area of that fragment.
C10_SourceAreaIsFragmentArea ==
  pc = "sourced" =>
    \A i \in 1..Len(srcs) :
      eq_eps(Polygon_area(srcs[i]), Polygon_area(folded[i]))

\* A fold across a slanted line split the polygon and reflected a fragment
\* of non-zero area, whose source polygon was then taken.
C10_Witness ==
  /\ pc = "sourced"
  /\ Len(folded) >= 2
  /\ ~eq_eps(v1.x, v2.x)
  /\ ~eq_eps(v1.y, v2.y)
  /\ \E i \in 1..Len(folded) :
       /\ folded[i] # frags[i]
       /\ gt(Polygon_area(srcs[i]), zero)

\* The product of the matrices of h, in order; the identity for none.
RECURSIVE Product(_, _)
Product(h, k) ==
  IF k = 0 THEN Matrix33_identity
  ELSE Matrix33_mul(Product(h, k - 1), h[k])

\* The polygons currently on the table and the history of each.
Current == others \o folded
CurrentHist == ohist \o fhist

TransformsCompose ==
  \A i \in 1..Len(Current) :
    Current[i].transform = Product(CurrentHist[i], Len(CurrentHist[i]))

SourcesInRoot ==
  \A i \in 1..Len(Current) :
    \A k \in 1..Len(Current[i].points) :
      Polygon_contains(root, source_poly(Current[i]).points[k])

SourcesCoverRoot ==
  SumAreas([i \in 1..Len(Current) |-> source_poly(Current[i])], 1)
    = Polygon_area(root)

\* C11: after any sequence of fold_polygon calls from a root polygon with the
\* identity transform, every fragment's transform is the ordered product of
\* the reflect matrices of the folds that flipped it, every vertex of its
\* source_poly() is contained in the root, and the areas of the source
\* polygons of all current fragments sum to the root's area.
C11_FoldSequenceInvariant ==
  pc = "fold_done" =>
    TransformsCompose /\ SourcesInRoot /\ SourcesCoverRoot

\* Cross product of b - a and q - a: positive when q is left of a -> b.
Side(a, b, q) ==
  sub(mul(sub(b.x, a.x), sub(q.y, a.y)), mul(sub(b.y, a.y), sub(q.x, a.x)))

\* q is in the closed convex polygon whose corners are given anticlockwise.
InConvex(corners, q) ==
  \A k \in 1..Len(corners) :
    ge(Side(corners[k], corners[(k % Len(corners)) + 1], q), zero)

\* The region each polygon of the polygon driver bounds, as convex pieces.
Pieces(pl) ==
  IF pl = Polygon_new(<<P(0, 0), P(2, 0), P(2, 2), P(0, 2)>>)
  THEN {<<P(0, 0), P(2, 0), P(2, 2), P(0, 2)>>}
  ELSE IF pl = Polygon_new(<<P(1, 1), P(1, 3), P(3, 3), P(3, 1)>>)
  THEN {<<P(1, 1), P(3, 1), P(3, 3), P(1, 3)>>}
  ELSE IF pl = Polygon_new(<<P(0, 0), P(4, 0), P(0, 3)>>)
  THEN {<<P(0, 0), P(4, 0), P(0, 3)>>}
  ELSE IF pl = Polygon_new(<<P(0, 0), P(4, 2), P(0, 4), P(1, 2)>>)
  THEN {<<P(0, 0), P(4, 2), P(1, 2)>>, <<P(1, 2), P(4, 2), P(0, 4)>>}
  ELSE {<<P(0, 0), P(1, 0), P(1, 3), P(0, 3)>>,
        <<P(1, 0), P(3, 0), P(3, 1), P(1, 1)>>,
        <<P(3, 0), P(4, 0), P(4, 3), P(3, 3)>>}

InRegion(pl, q) == \E piece \in Pieces(pl) : InConvex(piece, q)

\* C12: contains is inside OR coincident; it is true for every vertex,
\* boundary point and interior point of the polygon and false for every
\* point strictly outside it.
C12_ContainsIsClosedRegion ==
  pc = "contains_done" =>
    /\ cOut.contains = (cOut.inside \/ cOut.coincident)
    /\ cOut.contains = InRegion(poly, test)
    /\ OnBoundary(poly.points, test) => cOut.coincident
    /\ (\E k \in 1..Len(poly.points) : poly.points[k] = test) => cOut.contains

\* An interior point of the dart on the horizontal through its reflex vertex.
C12_Witness ==
  /\ pc = "contains_done"
  /\ Len(poly.points) = 4
  /\ poly.points[4] = P(1, 2)
  /\ test = P(2, 2)
  /\ cOut.inside /\ ~cOut.coincident /\ cOut.contains

\* The sum over consecutive points, wrap-around included, of
\* (x2 - x1) * (y2 + y1).
RECURSIVE Shoelace(_, _)
Shoelace(points, k) ==
  IF k > Len(points) THEN zero
  ELSE LET a == points[k]
           b == points[(k % Len(points)) + 1]
       IN  add(mul(sub(b.x, a.x), add(b.y, a.y)), Shoelace(points, k + 1))

\* The sum of area() over the polygons of ps that are holes (h = TRUE) or
\* are not (h = FALSE).
RECURSIVE AreaOf(_, _, _)
AreaOf(ps, h, k) ==
  IF k > Len(ps) THEN zero
  ELSE add(IF ge(Shoelace(ps[k].points, 1), zero) = h
           THEN abs(div(Shoelace(ps[k].points, 1), I2R(2))) ELSE zero,
           AreaOf(ps, h, k + 1))

\* C13: is_hole is true iff the signed doubled area is non-negative;
\* reversing the points of a polygon of non-zero area flips is_hole and
\* keeps area(); Shape::area is the area of the non-holes minus the area of
\* the holes.
C13_HoleSignAndShapeArea ==
  pc = "shape_done" =>
    /\ dOut.hole = ge(Shoelace(poly.points, 1), zero)
    /\ dOut.area # zero => (dOut.rhole # dOut.hole /\ dOut.rarea = dOut.area)
    /\ sOut = sub(AreaOf(shape.polys, FALSE, 1), AreaOf(shape.polys, TRUE, 1))

\* The shape of the area test: the 4 x 4 sheet with the unit hole, area 15.
C13_Witness ==
  /\ pc = "shape_done"
  /\ Len(shape.polys) = 2
  /\ shape.polys[2] = poly
  /\ dOut.hole /\ ~dOut.rhole /\ dOut.area = one
  /\ sOut = I2R(15)

\* The tolerance itself, and what it is to be a multiple of 1 / base.
Epsilon == Rat(1, EpsInv)
MultipleOfBase(c) == mul(c, I2R(base))[2] = 1
Within(c, d) == lt(abs(sub(c, d)), Epsilon)

\* C14: qntz(p, b) returns p itself or a point whose coordinates are
\* multiples of 1/b and each differ from p's by less than the tolerance.
C14_QuantizeSafety ==
  pc = "quant_done" =>
    \/ qOut = qp
    \/ /\ MultipleOfBase(qOut.x) /\ MultipleOfBase(qOut.y)
       /\ Within(qOut.x, qp.x) /\ Within(qOut.y, qp.y)

\* C15: flip_polygon(poly, v1, v2) has as many points as poly, its i-th
\* point is reflect_matrix(v1, v2) applied to poly's point n-1-i, its
\* transform is poly.transform * reflect_matrix(v1, v2), and is_hole() and
\* area() of the result equal those of poly.
C15_FlipReversesAndRestores ==
  pc = "flip_done" =>
    /\ Len(pOut.points) = Len(poly.points)
    /\ \A i \in 1..Len(poly.points) :
         pOut.points[i] =
           Matrix33_transform(reflect_matrix(v1, v2),
                              poly.points[Len(poly.points) + 1 - i])
    /\ pOut.transform = Matrix33_mul(poly.transform, reflect_matrix(v1, v2))
    /\ ge(Shoelace(pOut.points, 1), zero) = ge(Shoelace(poly.points, 1), zero)
    /\ abs(Shoelace(pOut.points, 1)) = abs(Shoelace(poly.points, 1))
    /\ is_hole(pOut) = is_hole(poly)
    /\ Polygon_area(pOut) = Polygon_area(poly)

\* The clockwise rectangle flipped across a slanted line.
C15_Witness ==
  /\ pc = "flip_done"
  /\ v1.x # v2.x /\ v1.y # v2.y
  /\ is_hole(poly) /\ is_hole(pOut)
  /\ pOut.points # poly.points
  /\ Polygon_area(pOut) = I2R(4)

\* The points of the grid of half and third steps that lie on the boundary
\* of poly and on the fold line: the points where the fold line crosses the
\* boundary, when no edge lies along it.
EdgeAlongFold ==
  \E k \in 1..Len(poly.points) :
    /\ OnFoldLine(poly.points[k])
    /\ OnFoldLine(poly.points[(k % Len(poly.points)) + 1])

\* Where the fold line meets the line of edge k, when they are not parallel.
MeetsEdge(k) ==
  intersect_inf(Line_new(v1, v2),
                Line_new(poly.points[k], poly.points[(k % Len(poly.points)) + 1]))

Crossings ==
  {Unwrap(MeetsEdge(k)) :
     k \in {j \in 1..Len(poly.points) :
              /\ MeetsEdge(j) # None
              /\ OnSegment(Unwrap(MeetsEdge(j)), poly.points[j],
                           poly.points[(j % Len(poly.points)) + 1])}}

\* C16: a fold line that crosses the boundary of a simple polygon at exactly
\* 2k distinct points, k >= 1, splits it into exactly k + 1 fragments.
C16_FragmentCount ==
  (/\ pc = "split_done"
   /\ ~EdgeAlongFold
   /\ Cardinality(Crossings) >= 2
   /\ Cardinality(Crossings) % 2 = 0) =>
    Len(frags) = (Cardinality(Crossings) \div 2) + 1

\* At least 3 points, no point equal to the next one around the boundary.
WellFormed(pl) ==
  /\ Len(pl.points) >= 3
  /\ \A k \in 1..Len(pl.points) :
       pl.points[k] # pl.points[(k % Len(pl.points)) + 1]

\* C17: every fragment split_polygon and fold_polygon return has at least 3
\* points and no two consecutive points equal, also when cut points fall on
\* vertices and when the fold line lies along an edge.
C17_FragmentsWellFormed ==
  /\ pc = "split_done" => \A i \in 1..Len(frags) : WellFormed(frags[i])
  /\ pc = "fold_done" => \A i \in 1..Len(folded) : WellFormed(folded[i])

\* The snapped and quantized destination point of point i of polygon a.
Destination(a, i) == qntz(snap(wpolys[a].points[i]), base)

\* C18: after any sequence of polygons, src and dst have equal length,
\* every index of every facet is below that length, the dst points are
\* pairwise distinct, two polygon vertices have the same index iff their
\* snapped and quantized destination points are equal, and each facet has
\* as many indices as its polygon has points.
C18_DedupInvariant ==
  (pc \in {"write_loop", "write_done"}) =>
    /\ Len(src) = Len(dst)
    /\ \A a \in 1..Len(facets) :
         /\ Len(facets[a]) = Len(wpolys[a].points)
         /\ \A i \in 1..Len(facets[a]) :
              facets[a][i] >= 0 /\ facets[a][i] < Len(dst)
    /\ \A i \in 1..Len(facet) : facet[i] >= 0 /\ facet[i] < Len(dst)
    /\ \A i, j \in 1..Len(dst) : dst[i] = dst[j] => i = j
    /\ \A a, b \in 1..Len(facets) :
         \A i \in 1..Len(facets[a]) :
           \A j \in 1..Len(facets[b]) :
             (facets[a][i] = facets[b][j]) = (Destination(a, i) = Destination(b, j))

\* Two polygons are written and share an index, and two points of the list
\* that differ are merged by quantization.
C18_Witness ==
  /\ pc = "write_done"
  /\ Len(facets) = 2
  /\ \E i \in 1..Len(facets[1]) :
       \E j \in 1..Len(facets[2]) :
         /\ facets[1][i] = facets[2][j]
         /\ wpolys[1].points[i] # wpolys[2].points[j]
  /\ Len(dst) < Len(facets[1]) + Len(facets[2])

\* The pairs of a result of intersect_poly, each as a set of two points.
Unordered(pairs) == {{pairs[k][1], pairs[k][2]} : k \in 1..Len(pairs)}

\* C19: two query lines with the same infinite extension get the same set
\* of unordered cut-point pairs from intersect_poly_inf, wherever their end
\* points lie on the line.
C19_PairingDependsOnLineOnly ==
  pc = "pair_done" => Unordered(iv) = Unordered(iw)

\* The snapped and quantized image of point i of polygon a under the inverse
\* of that polygon's own transform.
OwnSource(a, i) ==
  qntz(snap(Matrix33_transform(Matrix33_inverse(wpolys[a].transform),
                               wpolys[a].points[i])),
       base)

\* C20: the unfolded polygon from_polys returns for an input polygon has as
\* its i-th point the snapped and quantized image of the polygon's i-th
\* point under the inverse of the polygon's own transform.
C20_UnfoldedByOwnTransform ==
  pc = "write_done" =>
    /\ Len(unfolded) = Len(wpolys)
    /\ \A a \in 1..Len(wpolys) :
         /\ Len(unfolded[a].points) = Len(wpolys[a].points)
         /\ \A i \in 1..Len(wpolys[a].points) :
              unfolded[a].points[i] = OwnSource(a, i)
====
